---- MODULE Spec2Model ----
(***************************************************************************)
(* A model of cleanup (src/src/main.rs): the recursive, rayon-parallel     *)
(* duplicate remover.  One directory task per real directory, a per-task   *)
(* size map filled by a parallel iterator, a sequential digest pass per    *)
(* size bucket, one shared atomic counter, and the scope join in main.     *)
(*                                                                         *)
(* The file system is modelled with symbolic links: DirEntry::metadata     *)
(* and DirEntry::file_type do not follow links (the length of a link is    *)
(* the length of its target text) while fs::read does.  The build modelled *)
(* is the unix one (the cfg(unix) block of lines 128-138 is compiled in).  *)
(***************************************************************************)
EXTENDS Integers, Sequences, FiniteSets, TLC

VARIABLES opt, fs, fs0, task, deleted_count, mainpc, printed, faults, run,
          hashed, counted, removed, errors, spawns, lock

vars == <<opt, fs, fs0, task, deleted_count, mainpc, printed, faults, run,
          hashed, counted, removed, errors, spawns, lock>>

(***************************************************************************)
(* Bounds of the model.                                                    *)
(***************************************************************************)
\* injected I/O failures (permission denied, file vanished, ...) per behaviour
MaxFaults == 1
\* invocations of the tool, one after the other, on the same tree
MaxRuns == 2
\* symbolic links followed by one path resolution before it fails (ELOOP)
MaxHops == 3

(***************************************************************************)
(* The tree.  "w" is the working directory the tool is started in; it      *)
(* holds the input directory "r", which holds the directory "s".  A        *)
(* directory is named by the name of its entry.                            *)
(***************************************************************************)
ScanDirs == {"r", "s"}
Names == {"a", "b", "c", "s"}
Parent == [d \in {"w", "r", "s"} |-> IF d = "s" THEN "r" ELSE "w"]
\* creation time of an entry, by name
Created == [n \in Names |-> CASE n = "a" -> 1 [] n = "b" -> 2 [] n = "c" -> 3 [] n = "s" -> 4]

X == <<1>>
Y == <<2>>
XX == <<1, 1>>

NoPath == [abs |-> FALSE, comps |-> <<>>]
Rel(comps) == [abs |-> FALSE, comps |-> comps]
None == [kind |-> "none", content |-> <<>>, target |-> NoPath, dir |-> ""]
File(c) == [kind |-> "file", content |-> c, target |-> NoPath, dir |-> ""]
Link(p) == [kind |-> "link", content |-> <<>>, target |-> p, dir |-> ""]
DirNode(d) == [kind |-> "dir", content |-> <<>>, target |-> NoPath, dir |-> d]

\* the entry named n of directory d
Entry(fsys, d, n) ==
    IF d = "w" THEN (IF n = "r" THEN DirNode("r") ELSE None)
    ELSE IF n \in Names THEN fsys[d][n] ELSE None

\* fs::read_dir: the names of the directory's entries
read_dir(fsys, d) == {n \in Names : fsys[d][n].kind # "none"}

(***************************************************************************)
(* Paths.  A path is a list of components, absolute or relative; its text  *)
(* has one character per name, two for "..", and the separators.           *)
(***************************************************************************)
NameLen(c) == IF c = ".." THEN 2 ELSE 1

RECURSIVE SumLen(_)
SumLen(comps) == IF comps = <<>> THEN 0 ELSE NameLen(Head(comps)) + SumLen(Tail(comps))

TextLen(p) ==
    (IF p.abs THEN 1 ELSE 0) + SumLen(p.comps) + (IF Len(p.comps) > 0 THEN Len(p.comps) - 1 ELSE 0)

\* the path process_directory is called with for directory d
RECURSIVE DirPath(_, _)
DirPath(o, d) ==
    IF d = "r" THEN o.input ELSE [DirPath(o, Parent[d]) EXCEPT !.comps = Append(@, d)]

\* DirEntry::path
EntryPath(o, d, n) == [DirPath(o, d) EXCEPT !.comps = Append(@, n)]

Err == [k |-> "err", content |-> <<>>, dir |-> ""]

\* path resolution as the kernel does it: "cur" is the directory reached so
\* far, links are followed from the directory that holds them
RECURSIVE Walk(_, _, _, _)
Walk(fsys, cur, comps, hops) ==
    IF comps = <<>> THEN [k |-> "dir", content |-> <<>>, dir |-> cur]
    ELSE LET c == Head(comps)
             rest == Tail(comps)
             node == Entry(fsys, cur, c)
         IN  IF c = ".." THEN Walk(fsys, Parent[cur], rest, hops)
             ELSE CASE node.kind = "none" -> Err
                    [] node.kind = "dir" -> Walk(fsys, node.dir, rest, hops)
                    [] node.kind = "file" ->
                         IF rest = <<>> THEN [k |-> "file", content |-> node.content, dir |-> ""]
                         ELSE Err
                    [] node.kind = "link" ->
                         IF hops = 0 THEN Err
                         ELSE Walk(fsys, IF node.target.abs THEN "w" ELSE cur,
                                   node.target.comps \o rest, hops - 1)

\* fs::read(path) by the tool, whose working directory is "w"
ReadFile(fsys, p) ==
    LET r == Walk(fsys, "w", p.comps, MaxHops) IN IF r.k = "file" THEN r ELSE Err

\* Metadata::len of DirEntry::metadata (the link itself, not its target)
MetaLen(node) == IF node.kind = "link" THEN TextLen(node.target) ELSE Len(node.content)

\* Sha1 of a content; collisions are left out of the model
Sha1(bytes) == bytes

\* entries.sort_by(created)
RECURSIVE SortByCreated(_)
SortByCreated(S) ==
    IF S = {} THEN <<>>
    ELSE LET m == CHOOSE x \in S : \A y \in S : Created[x] <= Created[y]
         IN  <<m>> \o SortByCreated(S \ {m})

(***************************************************************************)
(* Initial trees and options.                                              *)
(***************************************************************************)
\* The input path is relative ("r") or absolute ("/r").  The text of the
\* path shows only in the links the tool makes, so the absolute input is
\* taken with the one mode that makes links.
Opts == {o \in [dry : BOOLEAN, symlink : BOOLEAN,
                input : {[abs |-> x, comps |-> <<"r">>] : x \in BOOLEAN}] :
            o.input.abs => (o.symlink /\ ~o.dry)}

RootA == {File(X), Link(Rel(<<"b">>))}
RootB == {File(X), File(Y), File(XX)}
RootC == {File(X), File(XX), Link(Rel(<<"..">>)), None}
SubA == {File(X)}
SubB == {File(X), File(Y)}

Trees == {[d \in ScanDirs |->
             IF d = "r" THEN [n \in Names |-> CASE n = "a" -> ra [] n = "b" -> rb
                                                [] n = "c" -> rc [] n = "s" -> DirNode("s")]
             ELSE [n \in Names |-> CASE n = "a" -> sa [] n = "b" -> sb
                                     [] n = "c" -> None [] n = "s" -> None]] :
          ra \in RootA, rb \in RootB, rc \in RootC, sa \in SubA, sb \in SubB}

\* the RwLock of file_sizes (line 65): the entries that hold it for
\* writing, the number of holders for reading
Unlocked == [writers |-> {}, readers |-> 0]

IdleTask == [pc |-> "idle", entries |-> <<>>, todo |-> {}, file_sizes |-> <<>>,
             failed |-> FALSE, bucket |-> <<>>]

Init ==
    /\ opt \in Opts
    /\ fs \in Trees
    /\ fs0 = fs
    /\ task = [d \in ScanDirs |-> IdleTask]
    /\ deleted_count = 0
    /\ mainpc = "start"
    /\ printed = <<>>
    /\ faults = 0
    /\ run = 1
    /\ hashed = {}
    /\ counted = {}
    /\ removed = {}
    /\ errors = {}
    /\ spawns = [d \in ScanDirs |-> 0]
    /\ lock = [d \in ScanDirs |-> Unlocked]

(***************************************************************************)
(* main: rayon::scope spawns the task of the input directory.              *)
(***************************************************************************)
MainScope ==
    /\ mainpc = "start"
    /\ mainpc' = "scope"
    /\ task' = [task EXCEPT !["r"] = [IdleTask EXCEPT !.pc = "spawned"]]
    /\ spawns' = [spawns EXCEPT !["r"] = @ + 1]
    /\ UNCHANGED <<opt, fs, fs0, deleted_count, printed, faults, run, hashed, counted, removed, errors, lock>>

(***************************************************************************)
(* process_directory, lines 65-85: list the directory and sort the entries *)
(* by creation time.  par_iter then works on the indices of "entries".     *)
(***************************************************************************)
ReadDir(d) ==
    /\ task[d].pc = "spawned"
    /\ LET es == SortByCreated(read_dir(fs, d))
       IN  task' = [task EXCEPT ![d] = [@ EXCEPT !.pc = "classify", !.entries = es,
                                                 !.todo = DOMAIN es]]
    /\ UNCHANGED <<opt, fs, fs0, deleted_count, mainpc, printed, faults, run, hashed, counted, removed, errors, spawns, lock>>

\* the expect()s of lines 68-82 panic before any entry is classified
ReadDirFail(d, kind) ==
    /\ task[d].pc = "spawned"
    /\ faults < MaxFaults
    /\ faults' = faults + 1
    /\ task' = [task EXCEPT ![d].pc = "panicked", ![d].failed = TRUE]
    /\ errors' = errors \cup {[dir |-> d, kind |-> kind]}
    /\ UNCHANGED <<opt, fs, fs0, deleted_count, mainpc, printed, run, hashed, counted, removed, spawns, lock>>

(***************************************************************************)
(* Lines 87-104, one entry of the parallel iterator.                       *)
(***************************************************************************)
\* a bug: the map is pushed to without the exclusive lock
CanWrite_m(l) == TRUE

\* RwLock::write and RwLock::read
CanWrite(l) == l.writers = {} /\ l.readers = 0

CanRead(l) == l.writers = {}

\* for_each has returned: every closure of the iterator is through
IterDone(t) == t.todo = {}

\* line 92: file_type does not follow links, so a link to a directory is
\* no directory
Recurse(node) == node.kind = "dir" /\ ~(node.kind = "link")

\* a bug: the entries are not keyed by their length
PushEntry_nokey(m, sz, n) ==
    [k \in DOMAIN m \cup {0} |-> IF k \in DOMAIN m THEN Append(m[k], n) ELSE <<n>>]

\* a bug: insert(len, vec![entry]) in place of entry(len).or_default().push
PushEntry_insert(m, sz, n) ==
    [k \in DOMAIN m \cup {sz} |-> IF k = sz THEN <<n>> ELSE m[k]]

\* lines 97-102, under the write lock: entry(len).or_default().push(entry)
PushEntry(m, sz, n) ==
    [k \in DOMAIN m \cup {sz} |->
        IF k \in DOMAIN m THEN (IF k = sz THEN Append(m[k], n) ELSE m[k]) ELSE <<n>>]

Classify(d, i) ==
    /\ task[d].pc = "classify"
    /\ i \in task[d].todo
    /\ i \notin lock[d].writers
    /\ Recurse(Entry(fs, d, task[d].entries[i])) \/ CanWrite(lock[d])
    /\ LET n == task[d].entries[i]
           node == Entry(fs, d, n)
       IN  IF Recurse(node)
           THEN /\ task' = [task EXCEPT ![d].todo = @ \ {i},
                                        ![node.dir] = [IdleTask EXCEPT !.pc = "spawned"]]
                /\ spawns' = [spawns EXCEPT ![node.dir] = @ + 1]
           ELSE /\ task' = [task EXCEPT ![d].todo = @ \ {i},
                                        ![d].file_sizes = PushEntry(@, MetaLen(node), n)]
                /\ spawns' = spawns
    /\ UNCHANGED <<opt, fs, fs0, deleted_count, mainpc, printed, faults, run, hashed, counted, removed, errors, lock>>

\* lines 88 and 91: the panic is kept by the iterator until its other
\* entries are through
ClassifyFail(d, i) ==
    /\ task[d].pc = "classify"
    /\ i \in task[d].todo
    /\ i \notin lock[d].writers
    /\ faults < MaxFaults
    /\ faults' = faults + 1
    /\ task' = [task EXCEPT ![d].todo = @ \ {i}, ![d].failed = TRUE]
    /\ errors' = errors \cup {[dir |-> d, kind |-> "MetadataUnavailable"]}
    /\ UNCHANGED <<opt, fs, fs0, deleted_count, mainpc, printed, run, hashed, counted, removed, spawns, lock>>

(***************************************************************************)
(* Lines 107-112: take the read lock and keep the buckets of two or more.  *)
(***************************************************************************)
\* a bug: the buckets of one entry pass the filter
Filter_m(entries) == Len(entries) > 0

\* line 111: entries.len() > 1
Filter(entries) == Len(entries) > 1

NewBucket(entries) ==
    [pc |-> IF Filter(entries) THEN "read" ELSE "skip", idx |-> 1, hashes |-> <<>>, target |-> ""]

BeginHash(d) ==
    /\ task[d].pc = "classify"
    /\ IterDone(task[d])
    /\ ~task[d].failed
    /\ CanRead(lock[d])
    /\ lock' = [lock EXCEPT ![d].readers = @ + 1]
    /\ task' = [task EXCEPT ![d].pc = "hash",
                            ![d].bucket = [k \in DOMAIN task[d].file_sizes |->
                                              NewBucket(task[d].file_sizes[k])]]
    /\ UNCHANGED <<opt, fs, fs0, deleted_count, mainpc, printed, faults, run, hashed, counted, removed, errors, spawns>>

(***************************************************************************)
(* Lines 113-145: one bucket, entry after entry.                           *)
(***************************************************************************)
\* a bug: any entry registered for the bucket is taken for a match
Lookup_m(hashes, digest) ==
    IF DOMAIN hashes # {} THEN hashes[CHOOSE g \in DOMAIN hashes : TRUE] ELSE ""

\* line 123: hashes.get(&result), the registered name or "" for None
Lookup(hashes, digest) == IF digest \in DOMAIN hashes THEN hashes[digest] ELSE ""

\* a bug: the counter is stored, not added to
fetch_add_m(c) == 1

\* line 124: deleted_file_count.fetch_add(1)
fetch_add(c) == c + 1

\* a bug: --symlink is obeyed in a dry run
Destructive_m(o) == ~o.dry \/ o.symlink

\* line 126: if !options.dry
Destructive(o) == ~o.dry

\* line 143: hashes.insert(result, path)
Insert(hashes, digest, n) ==
    [g \in DOMAIN hashes \cup {digest} |-> IF g = digest THEN n ELSE hashes[g]]

\* a bug: the for loop takes the same entry again
Advance_m(b, len) == [b EXCEPT !.pc = "read", !.target = ""]

\* the for loop goes to its next entry, or ends
Advance(b, len) ==
    IF b.idx >= len THEN [b EXCEPT !.pc = "done", !.target = ""]
    ELSE [b EXCEPT !.pc = "read", !.idx = @ + 1, !.target = ""]

Panic(d, k, kind) ==
    /\ task' = [task EXCEPT ![d].bucket[k].pc = "panicked", ![d].failed = TRUE]
    /\ errors' = errors \cup {[dir |-> d, kind |-> kind]}

\* lines 115-124 and 139-144: read, digest, look up, count
HashEntry(d, k) ==
    /\ task[d].pc = "hash"
    /\ k \in DOMAIN task[d].bucket
    /\ task[d].bucket[k].pc = "read"
    /\ LET b == task[d].bucket[k]
           n == task[d].file_sizes[k][b.idx]
           r == ReadFile(fs, EntryPath(opt, d, n))
           len == Len(task[d].file_sizes[k])
       IN  IF r.k = "err"
           THEN /\ Panic(d, k, "FileReadFailed")
                /\ UNCHANGED <<deleted_count, hashed, counted, spawns, lock>>
           ELSE /\ hashed' = hashed \cup {[dir |-> d, name |-> n, digest |-> Sha1(r.content)]}
                /\ errors' = errors
                /\ IF Lookup(b.hashes, Sha1(r.content)) # ""
                   THEN /\ deleted_count' = fetch_add(deleted_count)
                        /\ counted' = counted \cup
                              {[dir |-> d, size |-> k, name |-> n,
                                of |-> Lookup(b.hashes, Sha1(r.content))]}
                        /\ task' = [task EXCEPT ![d].bucket[k] =
                              IF Destructive(opt)
                              THEN [b EXCEPT !.pc = "remove",
                                             !.target = Lookup(b.hashes, Sha1(r.content))]
                              ELSE Advance(b, len)]
                   ELSE /\ task' = [task EXCEPT ![d].bucket[k] =
                              Advance([b EXCEPT !.hashes = Insert(@, Sha1(r.content), n)], len)]
                        /\ UNCHANGED <<deleted_count, counted, spawns, lock>>
    /\ UNCHANGED <<opt, fs, fs0, mainpc, printed, faults, run, removed, spawns, lock>>

\* line 118, the read fails for a reason outside the tree (permissions)
ReadFail(d, k) ==
    /\ task[d].pc = "hash"
    /\ k \in DOMAIN task[d].bucket
    /\ task[d].bucket[k].pc = "read"
    /\ faults < MaxFaults
    /\ faults' = faults + 1
    /\ Panic(d, k, "FileReadFailed")
    /\ UNCHANGED <<opt, fs, fs0, deleted_count, mainpc, printed, run, hashed, counted, removed, spawns, lock>>

\* line 127: fs::remove_file unlinks the entry itself
RemoveFile(d, k) ==
    /\ task[d].pc = "hash"
    /\ k \in DOMAIN task[d].bucket
    /\ task[d].bucket[k].pc = "remove"
    /\ LET b == task[d].bucket[k]
           n == task[d].file_sizes[k][b.idx]
           len == Len(task[d].file_sizes[k])
       IN  IF Entry(fs, d, n).kind \in {"file", "link"}
           THEN /\ fs' = [fs EXCEPT ![d][n] = None]
                /\ removed' = removed \cup {[dir |-> d, name |-> n]}
                /\ task' = [task EXCEPT ![d].bucket[k] =
                      IF opt.symlink THEN [b EXCEPT !.pc = "link"] ELSE Advance(b, len)]
                /\ errors' = errors
           ELSE /\ Panic(d, k, "DeleteFailed")
                /\ fs' = fs
                /\ removed' = removed
    /\ UNCHANGED <<opt, fs0, deleted_count, mainpc, printed, faults, run, hashed, counted, spawns, lock>>

RemoveFail(d, k) ==
    /\ task[d].pc = "hash"
    /\ k \in DOMAIN task[d].bucket
    /\ task[d].bucket[k].pc = "remove"
    /\ faults < MaxFaults
    /\ faults' = faults + 1
    /\ Panic(d, k, "DeleteFailed")
    /\ UNCHANGED <<opt, fs, fs0, deleted_count, mainpc, printed, run, hashed, counted, removed, spawns, lock>>

\* lines 130-137: symlink(&target_file, &path) stores the text of
\* target_file in a new link at path
MakeLink(d, k) ==
    /\ task[d].pc = "hash"
    /\ k \in DOMAIN task[d].bucket
    /\ task[d].bucket[k].pc = "link"
    /\ LET b == task[d].bucket[k]
           n == task[d].file_sizes[k][b.idx]
           len == Len(task[d].file_sizes[k])
       IN  IF Entry(fs, d, n).kind = "none"
           THEN /\ fs' = [fs EXCEPT ![d][n] = Link(EntryPath(opt, d, b.target))]
                /\ task' = [task EXCEPT ![d].bucket[k] = Advance(b, len)]
                /\ errors' = errors
           ELSE /\ Panic(d, k, "LinkFailed")
                /\ fs' = fs
    /\ UNCHANGED <<opt, fs0, deleted_count, mainpc, printed, faults, run, hashed, counted, removed, spawns, lock>>

LinkFail(d, k) ==
    /\ task[d].pc = "hash"
    /\ k \in DOMAIN task[d].bucket
    /\ task[d].bucket[k].pc = "link"
    /\ faults < MaxFaults
    /\ faults' = faults + 1
    /\ Panic(d, k, "LinkFailed")
    /\ UNCHANGED <<opt, fs, fs0, deleted_count, mainpc, printed, run, hashed, counted, removed, spawns, lock>>

(***************************************************************************)
(* The end of process_directory.  It returns when its own two parallel     *)
(* iterators are through; the tasks it spawned belong to the scope of      *)
(* main.  A panic leaves the iterator once the work that was started is    *)
(* through; work that was not started may be dropped.                      *)
(***************************************************************************)
Return(d) ==
    /\ task[d].pc = "hash"
    /\ ~task[d].failed
    /\ \A k \in DOMAIN task[d].bucket : task[d].bucket[k].pc \in {"done", "skip"}
    /\ task' = [task EXCEPT ![d].pc = "done"]
    /\ lock' = [lock EXCEPT ![d] = Unlocked]
    /\ UNCHANGED <<opt, fs, fs0, deleted_count, mainpc, printed, faults, run, hashed, counted, removed, errors, spawns>>

NotStarted(b) == b.pc = "read" /\ b.idx = 1

Unwind(d) ==
    /\ task[d].failed
    /\ \/ task[d].pc = "classify"
       \/ /\ task[d].pc = "hash"
          /\ \A k \in DOMAIN task[d].bucket :
                \/ task[d].bucket[k].pc \in {"done", "skip", "panicked"}
                \/ NotStarted(task[d].bucket[k])
    /\ lock[d].writers = {}
    /\ task' = [task EXCEPT ![d].pc = "panicked", ![d].todo = {}]
    /\ lock' = [lock EXCEPT ![d] = Unlocked]
    /\ UNCHANGED <<opt, fs, fs0, deleted_count, mainpc, printed, faults, run, hashed, counted, removed, errors, spawns>>

(***************************************************************************)
(* main, lines 36-54: the scope returns when every task spawned on it is   *)
(* through, and passes a panic of a task on to main.                       *)
(***************************************************************************)
\* a bug: the job of a task that panicked is never taken off the scope
Running_m(t) == t.pc \in {"spawned", "classify", "hash", "panicked"}

\* a job of the scope that is not through
Running(t) == t.pc \in {"spawned", "classify", "hash"}

\* a bug: the scope waits for the task of the input directory alone
ScopeComplete_m(tk) == ~Running(tk["r"])

\* the scope's job count is zero
ScopeComplete(tk) == \A d \in ScanDirs : ~Running(tk[d])

\* a bug: the panic of a task spawned by a task is dropped
Panicked_m(tk) == tk["r"].pc = "panicked"

\* the scope kept the panic of one of its jobs
Panicked(tk) == \E d \in ScanDirs : tk[d].pc = "panicked"

Summary ==
    /\ mainpc = "scope"
    /\ ScopeComplete(task)
    /\ ~Panicked(task)
    /\ mainpc' = "done"
    /\ printed' = Append(printed, [dry |-> opt.dry, n |-> deleted_count])
    /\ UNCHANGED <<opt, fs, fs0, task, deleted_count, faults, run, hashed, counted, removed, errors, spawns, lock>>

MainPanic ==
    /\ mainpc = "scope"
    /\ ScopeComplete(task)
    /\ Panicked(task)
    /\ mainpc' = "panicked"
    /\ UNCHANGED <<opt, fs, fs0, task, deleted_count, printed, faults, run, hashed, counted, removed, errors, spawns, lock>>

\* the tool is started again, with the same arguments, on the tree it left
Rerun ==
    /\ mainpc = "done"
    /\ run < MaxRuns
    /\ run' = run + 1
    /\ mainpc' = "start"
    /\ fs0' = fs
    /\ task' = [d \in ScanDirs |-> IdleTask]
    /\ deleted_count' = 0
    /\ hashed' = {}
    /\ counted' = {}
    /\ removed' = {}
    /\ spawns' = [d \in ScanDirs |-> 0]
    /\ UNCHANGED <<opt, fs, printed, faults, errors, lock>>

ReadDirErrors == {"DirectoryUnreadable", "MetadataUnavailable", "TimestampUnsupported"}

Next ==
    \/ MainScope
    \/ \E d \in ScanDirs : ReadDir(d)
    \/ \E d \in ScanDirs, kind \in ReadDirErrors : ReadDirFail(d, kind)
    \/ \E d \in ScanDirs, i \in 1..Cardinality(Names) : Classify(d, i)
    \/ \E d \in ScanDirs, i \in 1..Cardinality(Names) : ClassifyFail(d, i)
    \/ \E d \in ScanDirs : BeginHash(d)
    \/ \E d \in ScanDirs : \E k \in DOMAIN task[d].bucket : HashEntry(d, k)
    \/ \E d \in ScanDirs : \E k \in DOMAIN task[d].bucket : ReadFail(d, k)
    \/ \E d \in ScanDirs : \E k \in DOMAIN task[d].bucket : RemoveFile(d, k)
    \/ \E d \in ScanDirs : \E k \in DOMAIN task[d].bucket : RemoveFail(d, k)
    \/ \E d \in ScanDirs : \E k \in DOMAIN task[d].bucket : MakeLink(d, k)
    \/ \E d \in ScanDirs : \E k \in DOMAIN task[d].bucket : LinkFail(d, k)
    \/ \E d \in ScanDirs : Return(d)
    \/ \E d \in ScanDirs : Unwind(d)
    \/ Summary
    \/ MainPanic
    \/ Rerun

Spec == Init /\ [][Next]_vars

(***************************************************************************)
(* The closure of lines 96-103 in two steps, for the claims about the      *)
(* lock: file_sizes.write() is taken, then the entry is pushed and the     *)
(* guard dropped.  In Spec the two are the one step Classify.              *)
(***************************************************************************)
WriteLock(d, i) ==
    /\ task[d].pc = "classify"
    /\ i \in task[d].todo
    /\ i \notin lock[d].writers
    /\ ~Recurse(Entry(fs, d, task[d].entries[i]))
    /\ CanWrite(lock[d])
    /\ lock' = [lock EXCEPT ![d].writers = @ \cup {i}]
    /\ UNCHANGED <<opt, fs, fs0, task, deleted_count, mainpc, printed, faults, run, hashed, counted, removed, errors, spawns>>

PushUnlock(d, i) ==
    /\ task[d].pc = "classify"
    /\ i \in lock[d].writers
    /\ LET n == task[d].entries[i]
       IN  task' = [task EXCEPT ![d].todo = @ \ {i},
                                ![d].file_sizes = PushEntry(@, MetaLen(Entry(fs, d, n)), n)]
    /\ lock' = [lock EXCEPT ![d].writers = @ \ {i}]
    /\ UNCHANGED <<opt, fs, fs0, deleted_count, mainpc, printed, faults, run, hashed, counted, removed, errors, spawns>>

\* lines 92-95: the closure of a directory entry takes no lock
SpawnTask(d, i) ==
    /\ task[d].pc = "classify"
    /\ i \in task[d].todo
    /\ Recurse(Entry(fs, d, task[d].entries[i]))
    /\ Classify(d, i)

StepLock ==
    \/ MainScope
    \/ \E d \in ScanDirs : ReadDir(d)
    \/ \E d \in ScanDirs, kind \in ReadDirErrors : ReadDirFail(d, kind)
    \/ \E d \in ScanDirs, i \in 1..Cardinality(Names) : SpawnTask(d, i)
    \/ \E d \in ScanDirs, i \in 1..Cardinality(Names) : WriteLock(d, i)
    \/ \E d \in ScanDirs, i \in 1..Cardinality(Names) : PushUnlock(d, i)
    \/ \E d \in ScanDirs, i \in 1..Cardinality(Names) : ClassifyFail(d, i)
    \/ \E d \in ScanDirs : BeginHash(d)
    \/ \E d \in ScanDirs : \E k \in DOMAIN task[d].bucket : HashEntry(d, k)
    \/ \E d \in ScanDirs : \E k \in DOMAIN task[d].bucket : ReadFail(d, k)
    \/ \E d \in ScanDirs : \E k \in DOMAIN task[d].bucket : RemoveFile(d, k)
    \/ \E d \in ScanDirs : \E k \in DOMAIN task[d].bucket : RemoveFail(d, k)
    \/ \E d \in ScanDirs : \E k \in DOMAIN task[d].bucket : MakeLink(d, k)
    \/ \E d \in ScanDirs : \E k \in DOMAIN task[d].bucket : LinkFail(d, k)
    \/ \E d \in ScanDirs : Return(d)
    \/ \E d \in ScanDirs : Unwind(d)
    \/ Summary
    \/ MainPanic

NextLock == StepLock \/ Rerun

\* the lock does not depend on the options: one run of each mode, with
\* the relative input path
InitLock == Init /\ ~opt.input.abs /\ (opt.dry => ~opt.symlink)

LockSpec == InitLock /\ [][NextLock]_vars

(***************************************************************************)
(* The worker pool: a thread that can take a step of main or of a task     *)
(* takes one.  The failures of the system calls and a further start of the *)
(* tool are not owed by the pool.                                          *)
(***************************************************************************)
PoolStep ==
    \/ MainScope
    \/ \E d \in ScanDirs : ReadDir(d)
    \/ \E d \in ScanDirs, i \in 1..Cardinality(Names) : SpawnTask(d, i)
    \/ \E d \in ScanDirs, i \in 1..Cardinality(Names) : WriteLock(d, i)
    \/ \E d \in ScanDirs, i \in 1..Cardinality(Names) : PushUnlock(d, i)
    \/ \E d \in ScanDirs : BeginHash(d)
    \/ \E d \in ScanDirs : \E k \in DOMAIN task[d].bucket : HashEntry(d, k)
    \/ \E d \in ScanDirs : \E k \in DOMAIN task[d].bucket : RemoveFile(d, k)
    \/ \E d \in ScanDirs : \E k \in DOMAIN task[d].bucket : MakeLink(d, k)
    \/ \E d \in ScanDirs : Return(d)
    \/ \E d \in ScanDirs : Unwind(d)
    \/ Summary
    \/ MainPanic

\* the destructive modes, which take every step of a dry run but its report
InitFair == InitLock /\ ~opt.dry

\* one run of the tool
FairSpec == InitFair /\ [][StepLock]_vars /\ WF_vars(PoolStep)

(***************************************************************************)
(* What the claims speak of.                                               *)
(***************************************************************************)
\* the entries of d that are bucketed, at the start of the run
Bucketed0(d) == {n \in Names : fs0[d][n].kind \in {"file", "link"}}

\* what a read of the entry gave at the start of the run
Content0(d, n) == ReadFile(fs0, EntryPath(opt, d, n))

\* what a read of the entry gives now
ContentNow(d, n) == ReadFile(fs, EntryPath(opt, d, n))

CountedNames(d) == {c.name : c \in {x \in counted : x.dir = d}}

\* C1: when a bucket is classified its entries are in ascending creation
\* order, and the canonical file of a duplicate is older than the duplicate
\* (the oldest file of a digest is the one kept).
C1_OldestIsCanonical ==
    /\ \A d \in ScanDirs : task[d].pc = "hash" =>
          \A k \in DOMAIN task[d].file_sizes :
             \A i, j \in DOMAIN task[d].file_sizes[k] :
                i < j => Created[task[d].file_sizes[k][i]] < Created[task[d].file_sizes[k][j]]
    /\ \A c \in counted : Created[c.of] < Created[c.name]

\* the regular files of d with the content of n, at the start of the run
Group0(d, n) ==
    {m \in Names : fs0[d][m].kind = "file" /\ fs0[d][m].content = fs0[d][n].content}

\* the entry is kept: still the regular file it was (dry-run: not reported)
Retained(d, m) == IF opt.dry THEN m \notin CountedNames(d) ELSE fs[d][m] = fs0[d][m]

\* the entry is gone or a link (dry-run: reported and counted)
Removed(d, m) == IF opt.dry THEN m \in CountedNames(d) ELSE fs[d][m].kind # "file"

\* C2: after a successful run, of every group of two or more regular files
\* of a directory with equal length and content exactly one is retained as a
\* regular file and all the others are removed (dry-run: reported).
C2_OneOfEachGroupRetained ==
    mainpc = "done" =>
       \A d \in ScanDirs : \A n \in Names :
          (fs0[d][n].kind = "file" /\ Cardinality(Group0(d, n)) >= 2) =>
             /\ Cardinality({m \in Group0(d, n) : Retained(d, m)}) = 1
             /\ \A m \in Group0(d, n) : Retained(d, m) \/ Removed(d, m)

\* C3: a counted (removed or reported) entry has an entry before it in its
\* own bucket that was read with the same digest and had the same content
\* when the run began; nothing but counted entries is removed.
C3_OnlySameContentRemoved ==
    /\ \A c \in counted :
          LET bucket == task[c.dir].file_sizes[c.size]
          IN  /\ c.of # c.name
              /\ \E i, j \in DOMAIN bucket : i < j /\ bucket[i] = c.of /\ bucket[j] = c.name
              /\ \E g \in {h.digest : h \in hashed} :
                    /\ [dir |-> c.dir, name |-> c.name, digest |-> g] \in hashed
                    /\ [dir |-> c.dir, name |-> c.of, digest |-> g] \in hashed
              /\ Content0(c.dir, c.name).k = "file"
              /\ Content0(c.dir, c.name) = Content0(c.dir, c.of)
    /\ \A d \in ScanDirs : \A n \in Names :
          fs[d][n] # fs0[d][n] => n \in CountedNames(d)

\* a duplicate was removed from a bucket that also holds an entry of the
\* same length and another content, which is left as it was
C3_Witness ==
    /\ mainpc = "done"
    /\ ~opt.dry
    /\ \E c \in counted : \E n \in Names :
          /\ fs[c.dir][c.name].kind = "none"
          /\ n \in Bucketed0(c.dir)
          /\ MetaLen(fs0[c.dir][n]) = c.size
          /\ Content0(c.dir, n) # Content0(c.dir, c.name)
          /\ fs[c.dir][n] = fs0[c.dir][n]

\* the entries of d with length k, at the start of the run
BucketOf(d, k) == {n \in Bucketed0(d) : MetaLen(fs0[d][n]) = k}

Sizes0(d) == {MetaLen(fs0[d][n]) : n \in Bucketed0(d)}

\* entries of the bucket minus the different contents read through them
Surplus(d, k) ==
    Cardinality(BucketOf(d, k)) - Cardinality({Content0(d, n) : n \in BucketOf(d, k)})

RECURSIVE SurplusOfBuckets(_, _)
SurplusOfBuckets(d, K) ==
    IF K = {} THEN 0
    ELSE LET k == CHOOSE x \in K : TRUE IN Surplus(d, k) + SurplusOfBuckets(d, K \ {k})

RECURSIVE SurplusOfDirs(_)
SurplusOfDirs(D) ==
    IF D = {} THEN 0
    ELSE LET d == CHOOSE x \in D : TRUE
         IN  SurplusOfBuckets(d, Sizes0(d)) + SurplusOfDirs(D \ {d})

ExpectedCount == SurplusOfDirs(ScanDirs)

\* C4: the count printed by a run that ends without a fatal error is the
\* sum over the directories and their size buckets of (entries - distinct
\* digests), a value of the tree alone, whatever the schedule was.
C4_CountIsEntriesMinusDigests ==
    mainpc = "done" =>
       /\ deleted_count = ExpectedCount
       /\ printed[Len(printed)].n = ExpectedCount

\* both tasks have counted, the second increment on top of the first
C4_Witness ==
    /\ mainpc = "done"
    /\ deleted_count >= 2
    /\ \E c1, c2 \in counted : c1.dir = "r" /\ c2.dir = "s"

\* C5: in a dry run, with or without --symlink, no step removes a file or
\* makes a link: the tree stays as it was, the duplicates are counted only,
\* and the runs that follow on the same tree print the same count.
C5_DryRunChangesNothing ==
    opt.dry =>
       /\ fs = fs0
       /\ \A d \in ScanDirs : \A k \in DOMAIN task[d].bucket :
             task[d].bucket[k].pc \notin {"remove", "link"}
       /\ deleted_count = Cardinality(counted)
       /\ \A i, j \in DOMAIN printed : printed[i] = printed[j]

\* a second dry run, with --symlink, has printed the count of the first
C5_Witness ==
    /\ opt.dry
    /\ opt.symlink
    /\ Len(printed) = 2
    /\ printed[1].n > 0
    /\ printed[2].n = printed[1].n

\* C6: after a successful run with --symlink each path a duplicate was
\* removed from is a link through which the content of the canonical file
\* of its bucket is read, for a relative and for an absolute input path.
C6_LinkResolvesToCanonical ==
    (mainpc = "done" /\ opt.symlink /\ ~opt.dry) =>
       \A c \in counted :
          /\ fs[c.dir][c.name].kind = "link"
          /\ ContentNow(c.dir, c.name).k = "file"
          /\ ContentNow(c.dir, c.name) = ContentNow(c.dir, c.of)
          /\ ContentNow(c.dir, c.name) = Content0(c.dir, c.name)

HashedNames(d) == {h.name : h \in {x \in hashed : x.dir = d}}

UniqueSize0(d, n) ==
    /\ n \in Bucketed0(d)
    /\ \A m \in Bucketed0(d) \ {n} : MetaLen(fs0[d][m]) # MetaLen(fs0[d][n])

\* C7: an entry whose length no other bucketed entry of its directory has
\* is never read for a digest, never counted and never removed; the buckets
\* given to the resolver have two entries or more.
C7_UniqueSizeUntouched ==
    /\ \A d \in ScanDirs : \A n \in Names :
          UniqueSize0(d, n) =>
             /\ n \notin HashedNames(d)
             /\ n \notin CountedNames(d)
             /\ fs[d][n] = fs0[d][n]
    /\ \A d \in ScanDirs : \A k \in DOMAIN task[d].bucket :
          task[d].bucket[k].pc # "skip" => Len(task[d].file_sizes[k]) >= 2

\* a destructive run is over that removed a duplicate from a directory
\* which also holds an entry of a length of its own
C7_Witness ==
    /\ mainpc = "done"
    /\ ~opt.dry
    /\ \E c \in counted : \E n \in Names :
          UniqueSize0(c.dir, n) /\ fs[c.dir][c.name] # fs0[c.dir][c.name]

\* the names registered as canonical in the buckets of d
Canonical(d) ==
    UNION {{task[d].bucket[k].hashes[g] : g \in DOMAIN task[d].bucket[k].hashes} :
              k \in DOMAIN task[d].bucket}

\* C8: a path registered as canonical is not removed, replaced or changed
\* for the rest of the run, and at the end of the run it exists and the
\* content read from it is the content it had.
C8_CanonicalKept ==
    \A d \in ScanDirs : \A n \in Canonical(d) :
       /\ fs[d][n] = fs0[d][n]
       /\ mainpc = "done" => ContentNow(d, n) = Content0(d, n)

\* C9: main reads the counter and prints after the task of the input
\* directory and every task spawned from it are through: no task is
\* pending or running then, and the counter stays at the value printed.
C9_SummaryAfterJoin ==
    mainpc = "done" =>
       /\ \A d \in ScanDirs : ~Running(task[d])
       /\ Len(printed) = run
       /\ printed[run].n = deleted_count
       /\ deleted_count = Cardinality(counted)

\* the summary is out and holds what the task of the subdirectory counted
C9_Witness ==
    /\ mainpc = "done"
    /\ task["s"].pc = "done"
    /\ \E c \in counted : c.dir = "s"
    /\ printed[run].n = deleted_count

\* C10: once a task has hit a fatal condition the run prints no summary:
\* main is still in the scope or has panicked, and when the scope is
\* complete it holds a panic to pass on.
C10_NoSummaryAfterFatal ==
    errors # {} =>
       /\ mainpc \in {"scope", "panicked"}
       /\ Len(printed) = run - 1
       /\ (mainpc = "scope" /\ ScopeComplete(task)) => Panicked(task)

\* the task of the subdirectory failed while the task of the input
\* directory went through and counted; main ended by the panic
C10_Witness ==
    /\ mainpc = "panicked"
    /\ task["r"].pc = "done"
    /\ task["s"].pc = "panicked"
    /\ deleted_count > 0
    /\ errors # {}

\* no other bucketed entry of d has the length and the content of n
AloneInDir0(d, n) ==
    /\ n \in Bucketed0(d)
    /\ \A m \in Bucketed0(d) \ {n} :
          MetaLen(fs0[d][m]) # MetaLen(fs0[d][n]) \/ Content0(d, m) # Content0(d, n)

\* C11: an entry is counted as the duplicate of a path of its own directory
\* and its own size bucket only; an entry with no equal in its directory is
\* kept and not counted, whatever the other directories hold.
C11_NoCrossingOfBuckets ==
    /\ \A c \in counted :
          /\ c.of \in Bucketed0(c.dir)
          /\ MetaLen(fs0[c.dir][c.of]) = c.size
          /\ MetaLen(fs0[c.dir][c.name]) = c.size
    /\ \A d \in ScanDirs : \A n \in Names :
          AloneInDir0(d, n) => (n \notin CountedNames(d) /\ fs[d][n] = fs0[d][n])

\* a destructive run is over; the two directories each hold a file with the
\* same content that has no equal in its own directory: both are kept
C11_Witness ==
    /\ mainpc = "done"
    /\ ~opt.dry
    /\ \E n \in Names, m \in Names :
          /\ AloneInDir0("r", n) /\ AloneInDir0("s", m)
          /\ Content0("r", n).k = "file"
          /\ Content0("r", n) = Content0("s", m)
          /\ fs["r"][n] = fs0["r"][n] /\ fs["s"][m] = fs0["s"][m]
          /\ n \in HashedNames("r") /\ m \in HashedNames("s")

RECURSIVE Ancestors(_)
Ancestors(d) == IF d = "w" THEN {} ELSE {Parent[d]} \cup Ancestors(Parent[d])

Descendants(d) == {e \in ScanDirs : d \in Ancestors(e)}

\* the directories that are entries of d
Subdirs0(d) == {fs0[d][n].dir : n \in {m \in Names : fs0[d][m].kind = "dir"}}

\* C12 as claimed: the invocation for a directory has returned only when
\* no task of a directory below it is pending or running.
C12_ForkJoinPerDirectory ==
    \A d \in ScanDirs : task[d].pc = "done" =>
       \A e \in Descendants(d) : ~Running(task[e])

\* C12, amended: the invocation for a directory returns when its own
\* entries are through (all classified, every bucket finished, a task
\* spawned for each subdirectory); the tasks below it are joined by the
\* scope of main, which is left only when no task is pending or running.
C12_JoinAtScope ==
    /\ \A d \in ScanDirs : task[d].pc = "done" =>
          /\ task[d].todo = {}
          /\ \A k \in DOMAIN task[d].bucket : task[d].bucket[k].pc \in {"done", "skip"}
          /\ \A e \in Subdirs0(d) : spawns[e] = 1
    /\ mainpc \in {"done", "panicked"} => \A d \in ScanDirs : ~Running(task[d])

\* the invocation for the input directory has returned, the task of its
\* subdirectory is still at work and main waits in the scope
C12_Witness ==
    /\ task["r"].pc = "done"
    /\ task["s"].pc \in {"classify", "hash"}
    /\ mainpc = "scope"

\* C13: once a task has hit a fatal condition no step spawns a directory
\* task any more.
C13_NoSpawnAfterFatal ==
    [][errors # {} => \A d \in ScanDirs : spawns'[d] = spawns[d]]_vars

\* the places of the buckets of d that hold the entry n
Occurrences(d, n) ==
    {ki \in UNION {{<<k, i>> : i \in DOMAIN task[d].file_sizes[k]} :
                      k \in DOMAIN task[d].file_sizes} :
        task[d].file_sizes[ki[1]][ki[2]] = n}

\* the entry is a link that resolves to a directory
LinkToDir0(d, n) ==
    /\ fs0[d][n].kind = "link"
    /\ Walk(fs0, IF fs0[d][n].target.abs THEN "w" ELSE d, fs0[d][n].target.comps, MaxHops).k = "dir"

\* C14: an entry that is a directory and no link gets one directory task
\* and is in no bucket; every other entry (file, link to a file or to a
\* directory) is put once, in the bucket of its length, and gets no task;
\* so every directory below the input is processed exactly once.
C14_EachEntryOneWay ==
    /\ \A d \in ScanDirs : \A n \in Names :
          /\ Cardinality(Occurrences(d, n)) <= 1
          /\ fs0[d][n].kind \in {"dir", "none"} => Occurrences(d, n) = {}
    /\ \A d \in ScanDirs : task[d].pc \in {"hash", "done"} =>
          \A n \in read_dir(fs0, d) :
             IF fs0[d][n].kind = "dir"
             THEN spawns[fs0[d][n].dir] = 1
             ELSE \E i \in DOMAIN task[d].file_sizes[MetaLen(fs0[d][n])] :
                     Occurrences(d, n) = {<<MetaLen(fs0[d][n]), i>>}
    /\ \A d \in ScanDirs :
          /\ spawns[d] <= 1
          /\ spawns[d] = 1 => (d = "r" \/ \E n \in Names : fs0[Parent[d]][n] = DirNode(d))
          /\ task[d].pc # "idle" => spawns[d] = 1
    /\ mainpc = "done" => \A d \in ScanDirs : spawns[d] = 1 /\ task[d].pc = "done"

\* a run is over in which a link to a directory was put in a bucket, not
\* recursed into, and the subdirectory got its one task
C14_Witness ==
    /\ mainpc = "done"
    /\ spawns["s"] = 1
    /\ \E n \in Names : LinkToDir0("r", n) /\ Cardinality(Occurrences("r", n)) = 1
    /\ \E n \in Names : fs0["r"][n].kind = "file" /\ Cardinality(Occurrences("r", n)) = 1

\* the places of the buckets of d
Places(t) == UNION {{<<k, i>> : i \in DOMAIN t.file_sizes[k]} : k \in DOMAIN t.file_sizes}

\* the entries of the listing that are bucketed
ToBucket(d) == {i \in DOMAIN task[d].entries : ~Recurse(Entry(fs0, d, task[d].entries[i]))}

C15_LockState ==
    \A d \in ScanDirs :
       /\ Cardinality(lock[d].writers) <= 1
       /\ ~(lock[d].writers # {} /\ lock[d].readers > 0)
       /\ lock[d].writers # {} => (task[d].pc = "classify" /\ lock[d].writers \subseteq task[d].todo)
       /\ lock[d].readers > 0 => task[d].pc = "hash"
       /\ task[d].pc = "hash" =>
             /\ lock[d].readers = 1
             /\ task[d].todo = {}
             /\ Cardinality(Places(task[d])) = Cardinality(ToBucket(d))

C15_LockStep ==
    \A d \in ScanDirs :
       task'[d].file_sizes # task[d].file_sizes =>
          \/ task'[d].file_sizes = <<>>
          \/ /\ task[d].pc = "classify" /\ task'[d].pc = "classify"
             /\ lock[d].readers = 0
             /\ \E i \in lock[d].writers : lock'[d].writers = lock[d].writers \ {i}
             /\ Cardinality(Places(task'[d])) = Cardinality(Places(task[d])) + 1

\* C15: the size map of a directory is written in the classification phase
\* only, one insertion at a time under the write lock and none lost, and it
\* is read (read lock held) only when every insertion is through: never a
\* writer and a reader, or two writers, at the same time.
C15_WritersThenReaders == []C15_LockState /\ [][C15_LockStep]_vars

\* one closure holds the write lock, another still waits for it, and an
\* entry was pushed before
C15_Witness ==
    \E d \in ScanDirs :
       /\ lock[d].writers # {}
       /\ Cardinality(task[d].todo \ lock[d].writers) >= 1
       /\ Places(task[d]) # {}

CountedPaths == {[dir |-> c.dir, name |-> c.name] : c \in counted}

\* the for loop of the bucket stands at the counted entry
AtEntry(c) ==
    /\ c.size \in DOMAIN task[c.dir].bucket
    /\ task[c.dir].file_sizes[c.size][task[c.dir].bucket[c.size].idx] = c.name

\* counted, and fs::remove_file has not returned Ok for it
NotRemoved == {c \in counted : [dir |-> c.dir, name |-> c.name] \notin removed}

\* C16 as stated: the counter is incremented only after the file is deleted,
\* so the counter is at most the number of files deleted so far.
C16_CountAfterDelete == ~opt.dry => deleted_count <= Cardinality(removed)

\* C16: in destructive mode the counter is incremented for a duplicate
\* before its file is deleted: every deleted file has been counted, and the
\* counter exceeds the number of files deleted so far by the duplicates
\* whose deletion is pending or has failed; a failed deletion is fatal, so
\* the count of a run that ends with the summary is the number of files it
\* deleted.
C16_CountBeforeDelete ==
    /\ removed \subseteq CountedPaths
    /\ deleted_count = Cardinality(counted)
    /\ opt.dry => removed = {}
    /\ ~opt.dry =>
          /\ deleted_count - Cardinality(removed) = Cardinality(NotRemoved)
          /\ \A c \in NotRemoved :
                /\ AtEntry(c)
                /\ task[c.dir].bucket[c.size].pc \in {"remove", "panicked"}
                /\ task[c.dir].bucket[c.size].pc = "panicked" =>
                      [dir |-> c.dir, kind |-> "DeleteFailed"] \in errors
          /\ mainpc = "done" => deleted_count = Cardinality(removed)

\* a deletion has failed after the counter was incremented for it, while
\* another duplicate was counted and deleted
C16_Witness ==
    /\ ~opt.dry
    /\ removed # {}
    /\ \E c \in NotRemoved : task[c.dir].bucket[c.size].pc = "panicked"
    /\ deleted_count > Cardinality(removed)

\* the for loop of no bucket stands on a counted path to read it
C17_NotAgain ==
    \A d \in ScanDirs : \A k \in DOMAIN task[d].bucket :
       task[d].bucket[k].pc = "read" =>
          [dir |-> d, name |-> task[d].file_sizes[k][task[d].bucket[k].idx]] \notin CountedPaths

C17_Step ==
    run' = run =>
       /\ deleted_count' >= deleted_count
       /\ counted \subseteq counted'
       /\ deleted_count' - deleted_count = Cardinality(CountedPaths' \ CountedPaths)

\* C17: the counter never decreases during a run, and no path is counted
\* twice: every increment is by one and for a path not counted before in
\* the run, by any task, and a counted path is not read for a digest again.
C17_CounterMonotone == []C17_NotAgain /\ [][C17_Step]_vars

\* two paths have been counted, and the task goes on reading other entries
C17_Witness ==
    /\ deleted_count >= 2
    /\ \E d \in ScanDirs : \E k \in DOMAIN task[d].bucket :
          /\ task[d].bucket[k].pc = "read"
          /\ CountedNames(d) # {}

\* C18: no content is lost by a successful destructive run: every content
\* that could be read through an entry of a directory before the run can be
\* read through an entry of that directory after it, links included.
C18_NoContentLost ==
    (mainpc = "done" /\ ~opt.dry) =>
       \A d \in ScanDirs : \A n \in Bucketed0(d) :
          Content0(d, n).k = "file" =>
             \E m \in Names : ContentNow(d, m) = Content0(d, n)

\* C20: a run on the tree left by a successful destructive run, with the
\* same flags, finds no duplicate, changes nothing and reports 0.
C20_Idempotent ==
    (run >= 2 /\ ~opt.dry) =>
       /\ counted = {}
       /\ deleted_count = 0
       /\ fs = fs0
       /\ mainpc = "done" => printed[Len(printed)].n = 0

Ended == mainpc \in {"done", "panicked"} /\ ScopeComplete(task)

\* C19: under fair scheduling of the pool every run ends: every task that
\* was spawned is through and the scope of main has joined (with the
\* summary, or with the panic of a task), whatever the lock was asked for
\* and also when a link of the tree points to an ancestor directory.
C19_Terminates == (mainpc \in {"start", "scope"}) ~> Ended

\* a run has ended on a tree with a link to the directory above the input
\* directory, after the task of the subdirectory was spawned and finished
C19_Witness ==
    /\ Ended
    /\ fs0["r"]["c"].kind = "link" /\ fs0["r"]["c"].target.comps = <<"..">>
    /\ spawns["s"] >= 1
    /\ ~Running(task["s"])

====
